---- MODULE Spec2Model ----
(***************************************************************************)
(* generate_deals.py: a command-line script that reads a CSV of raw deal   *)
(* titles and descriptions, cleans each row, asks a text-generation        *)
(* service for a listing per row, and writes the augmented CSV.            *)
(*                                                                         *)
(* Text is a sequence of one-character strings; a table cell is a record   *)
(* [t, v] (t = "str" for text, "nan" for an empty CSV cell, "num" for a    *)
(* JSON number).                                                           *)
(***************************************************************************)
EXTENDS Integers, Sequences, FiniteSets, TLC

(* ---------------------------- bounds ---------------------------------- *)

\* longest enumerated raw string given to the normalizer
MaxLen == 4
\* most data rows of an input table
MaxRows == 2

(* ---------------------------- characters ------------------------------ *)

Lower == <<"a","b","c","d","e","f","g","h","i","j","k","l","m",
           "n","o","p","q","r","s","t","u","v","w","x","y","z">>
Upper == <<"A","B","C","D","E","F","G","H","I","J","K","L","M",
           "N","O","P","Q","R","S","T","U","V","W","X","Y","Z">>

LowerSet == {Lower[i] : i \in 1..Len(Lower)}
UpperSet == {Upper[i] : i \in 1..Len(Upper)}

\* str.isspace() / regex \s on the ASCII range
Whitespace == {" ", "\t", "\n", "\r", "\f"}

IsSpace(c) == c \in Whitespace
IsLower(c) == c \in LowerSet
IsUpper(c) == c \in UpperSet
\* a cased character, in the sense of str.title()
IsCased(c) == IsLower(c) \/ IsUpper(c)

ToUpper(c) == IF IsLower(c) THEN Upper[CHOOSE i \in 1..Len(Lower) : Lower[i] = c] ELSE c
ToLower(c) == IF IsUpper(c) THEN Lower[CHOOSE i \in 1..Len(Upper) : Upper[i] = c] ELSE c

(* ---------------------------- cells ----------------------------------- *)

StrCell(s) == [t |-> "str", v |-> s]
\* what pandas.read_csv gives for an empty cell, and what a frame holds
\* where a row has no value for a column
NaN == [t |-> "nan", v |-> <<>>]
NumCell(s) == [t |-> "num", v |-> s]

\* Series.astype(str): text stays, a missing value becomes the text "nan"
AsTypeStr(cell) == IF cell.t = "nan" THEN <<"n","a","n">> ELSE cell.v

(* ---------------------------- Text Normalizer ------------------------- *)

RECURSIVE LStrip(_)
LStrip(s) ==
    IF s = <<>> THEN <<>>
    ELSE IF IsSpace(Head(s)) THEN LStrip(Tail(s)) ELSE s

RECURSIVE RStrip(_)
RStrip(s) ==
    IF s = <<>> THEN <<>>
    ELSE IF IsSpace(s[Len(s)]) THEN RStrip(SubSeq(s, 1, Len(s) - 1)) ELSE s

\* a Strip that forgets the trailing side
StripLeftOnly(s) == LStrip(s)

\* Series.str.strip()
Strip(s) == RStrip(LStrip(s))

\* Series.str.title(): a cased character is upper-cased when the character
\* before it is not cased, lower-cased otherwise; other characters are kept
Title(s) ==
    [i \in 1..Len(s) |->
        IF IsCased(s[i])
        THEN IF i > 1 /\ IsCased(s[i-1]) THEN ToLower(s[i]) ELSE ToUpper(s[i])
        ELSE s[i]]

\* Series.str.replace(r"\s+", " ", regex=True): every maximal whitespace run
\* becomes one space
RECURSIVE CollapseWs(_)
CollapseWs(s) ==
    IF s = <<>> THEN <<>>
    ELSE IF IsSpace(Head(s)) THEN <<" ">> \o CollapseWs(LStrip(Tail(s)))
    ELSE <<Head(s)>> \o CollapseWs(Tail(s))

\* df["RawTitle"].astype(str).str.strip().str.title()
CleanTitle(cell) == Title(Strip(AsTypeStr(cell)))

\* df["RawDescription"].astype(str).str.replace(r"\s+", " ", regex=True).str.strip()
CleanDesc(cell) == Strip(CollapseWs(AsTypeStr(cell)))

(* ---------------------------- frames ----------------------------------- *)

\* a table: the header (column names in order) and the data rows, each a
\* function from the column names to cells
Range(q) == {q[k] : k \in 1..Len(q)}

\* a column assignment that puts a new column first
SetColumnFirst(fr, name, vals) ==
    [header |-> IF name \in Range(fr.header) THEN fr.header ELSE <<name>> \o fr.header,
     rows   |-> [r \in 1..Len(fr.rows) |->
                   [c \in Range(fr.header) \cup {name} |->
                       IF c = name THEN vals[r] ELSE fr.rows[r][c]]]]

\* df[name] = vals: an existing column is overwritten in place, a new one is
\* appended; rows keep their positions
SetColumn(fr, name, vals) ==
    [header |-> IF name \in Range(fr.header) THEN fr.header ELSE Append(fr.header, name),
     rows   |-> [r \in 1..Len(fr.rows) |->
                   [c \in Range(fr.header) \cup {name} |->
                       IF c = name THEN vals[r] ELSE fr.rows[r][c]]]]

\* the "basic cleaning" of main: two derived columns added to df
Clean(d) ==
    SetColumn(
        SetColumn(d, "clean_title",
                  [r \in 1..Len(d.rows) |-> StrCell(CleanTitle(d.rows[r]["RawTitle"]))]),
        "clean_desc",
        [r \in 1..Len(d.rows) |-> StrCell(CleanDesc(d.rows[r]["RawDescription"]))])

(* ---------------------------- Listing Generator ----------------------- *)

ReqKeys == {"title", "html_description", "seo_description"}
DictKeys == ReqKeys \cup {"error"}

NoText == [k \in DictKeys |-> <<>>]

\* Python values generate_listing can return
PyDict(keys, val) == [t |-> "dict", keys |-> keys, val |-> val, sv |-> <<>>]
PyList == [t |-> "list", keys |-> {}, val |-> NoText, sv |-> <<>>]
PyScalar(s) == [t |-> "scalar", keys |-> {}, val |-> NoText, sv |-> s]

\* the text of field k in the JSON object the service replies with
ReplyField(tag, k) ==
    CASE k = "title"            -> <<"T", tag>>
      [] k = "html_description" -> <<"<", "h", "2", ">", tag>>
      [] k = "seo_description"  -> <<"S", tag>>
      [] OTHER                  -> <<>>

\* what one call of openai.ChatCompletion.create can do: raise, or reply
\* with text that is not JSON, a JSON object, a JSON array, a JSON number
Raise == [kind |-> "raise", keys |-> {}, tag |-> "-"]
Garbage == [kind |-> "garbage", keys |-> {}, tag |-> "-"]
Object(keys, tag) == [kind |-> "object", keys |-> keys, tag |-> tag]
Array == [kind |-> "array", keys |-> {}, tag |-> "-"]
Number == [kind |-> "number", keys |-> {}, tag |-> "7"]

Outcomes ==
    { Raise, Garbage, Array, Number,
      Object(ReqKeys, "A"), Object(ReqKeys, "B"),
      Object(ReqKeys \ {"seo_description"}, "C"), Object({}, "D") }

\* json.loads(content): fails on text that is not JSON, else the Python value
JsonLoads(o) ==
    CASE o.kind = "garbage" -> [ok |-> FALSE, val |-> PyList]
      [] o.kind = "object"  ->
            [ok |-> TRUE,
             val |-> PyDict(o.keys, [k \in DictKeys |->
                                       IF k \in o.keys THEN ReplyField(o.tag, k) ELSE <<>>])]
      [] o.kind = "array"   -> [ok |-> TRUE, val |-> PyList]
      [] OTHER              -> [ok |-> TRUE, val |-> PyScalar(<<o.tag>>)]

\* str(exc) of the exception caught
ErrText(o) == IF o.kind = "raise" THEN <<"a","p","i">> ELSE <<"j","s","o","n">>

\* a fallback that passes the raw, uncleaned cells through
FallbackRaw(row, o) ==
    PyDict(DictKeys,
           [k \in DictKeys |->
               CASE k = "title"            -> row["RawTitle"].v
                 [] k = "html_description" -> row["RawDescription"].v
                 [] k = "seo_description"  -> <<>>
                 [] OTHER                  -> ErrText(o)])

\* the dict of the except branch
Fallback(row, o) ==
    PyDict(DictKeys,
           [k \in DictKeys |->
               CASE k = "title"            -> row["clean_title"].v
                 [] k = "html_description" -> row["clean_desc"].v
                 [] k = "seo_description"  -> <<>>
                 [] OTHER                  -> ErrText(o)])

\* the prompt is rendered from the two cleaned fields
build_prompt(title, description) == [title |-> title, description |-> description]

\* generate_listing(row), given what the service does for this call
generate_listing(row, o) ==
    IF o.kind = "raise" THEN Fallback(row, o)
    ELSE IF ~JsonLoads(o).ok THEN Fallback(row, o)
    ELSE JsonLoads(o).val

(* ---------------------------- df.apply(..., result_type="expand") ----- *)

NoFrame == [ok |-> TRUE, exc |-> "", cols |-> {}, rows |-> <<>>]

\* an expansion that reads every row's values from the first result
FrameCellFirst(res, r, k) ==
    IF res[1].t = "dict"
    THEN IF k \in res[1].keys THEN StrCell(res[1].val[k]) ELSE NaN
    ELSE NumCell(res[1].sv)

\* the value of row r, column k of the expanded frame: a dict gives its
\* value or a missing value, a scalar is broadcast to every column
FrameCell(res, r, k) ==
    IF res[r].t = "dict"
    THEN IF k \in res[r].keys THEN StrCell(res[r].val[k]) ELSE NaN
    ELSE NumCell(res[r].sv)

\* pandas' wrapping of the per-row results:
\*  - an empty frame is not applied at all: the result is df.copy();
\*  - a first result that is no sequence gives a Series (no named columns);
\*  - otherwise DataFrame(results).T: dicts and lists cannot be mixed, lists
\*    alone give integer-named columns, dicts give the union of their keys.
Expand(res, d) ==
    IF Len(d.rows) = 0
    THEN [ok |-> TRUE, exc |-> "", cols |-> Range(d.header), rows |-> <<>>]
    ELSE IF res[1].t = "scalar"
    THEN [ok |-> TRUE, exc |-> "", cols |-> {}, rows |-> <<>>]
    ELSE IF (\E r \in 1..Len(res) : res[r].t = "list")
    THEN IF (\E r \in 1..Len(res) : res[r].t = "dict")
         THEN [ok |-> FALSE, exc |-> "ValueError", cols |-> {}, rows |-> <<>>]
         ELSE [ok |-> TRUE, exc |-> "", cols |-> {}, rows |-> <<>>]
    ELSE LET cols == UNION {res[r].keys : r \in 1..Len(res)}
         IN [ok |-> TRUE, exc |-> "", cols |-> cols,
             rows |-> [r \in 1..Len(res) |-> [k \in cols |-> FrameCell(res, r, k)]]]

\* results[k] of an empty-frame copy is the (empty) column of df
Column(fr, k) == [r \in 1..Len(fr.rows) |-> fr.rows[r][k]]

\* a merge that keeps only the rows whose result carries no error
AssignColumnsDropFailed(d, fr) ==
    IF ~(ReqKeys \subseteq fr.cols)
    THEN [ok |-> FALSE, exc |-> "KeyError", df |-> d]
    ELSE LET keep == SelectSeq([r \in 1..Len(fr.rows) |-> r],
                               LAMBDA r : "error" \notin fr.cols \/ fr.rows[r]["error"] = NaN)
             full == SetColumn(
                       SetColumn(
                         SetColumn(d, "Formatted Title", Column(fr, "title")),
                         "HTML Description", Column(fr, "html_description")),
                       "SEO Description", Column(fr, "seo_description"))
         IN [ok |-> TRUE, exc |-> "",
             df |-> [header |-> full.header,
                     rows |-> [j \in 1..Len(keep) |-> full.rows[keep[j]]]]]

\* the three assignments df[...] = results[...]; a missing key is a KeyError
AssignColumns(d, fr) ==
    IF ~(ReqKeys \subseteq fr.cols)
    THEN [ok |-> FALSE, exc |-> "KeyError", df |-> d]
    ELSE [ok |-> TRUE, exc |-> "",
          df |-> SetColumn(
                   SetColumn(
                     SetColumn(d, "Formatted Title", Column(fr, "title")),
                     "HTML Description", Column(fr, "html_description")),
                   "SEO Description", Column(fr, "seo_description"))]

(* ---------------------------- state ------------------------------------ *)

VARIABLES
    argKey,     \* the --api-key argument (Nil when not given)
    envKey,     \* the OPENAI_API_KEY environment variable (Nil when unset)
    file,       \* the input CSV
    pc,         \* where the script is
    apiKey,     \* openai.api_key
    inputRead,  \* pd.read_csv has run
    df,         \* the frame main works on
    idx,        \* the row df.apply is at
    requests,   \* the calls made to the service, in order
    replies,    \* what the service did for each call, in order
    results,    \* what generate_listing returned for each row
    resFrame,   \* the frame df.apply returned
    out,        \* the output CSV
    written,    \* df.to_csv has run
    stdout,     \* the completion notice
    stderr,     \* the message of SystemExit, or the uncaught exception
    exitCode,   \* the process's exit status (-1 while it runs)
    normRaw,    \* a raw cell given to the normalizer
    normTitle,  \* its cleaned title
    normDesc,   \* its cleaned description
    normDone    \* which of the two have been computed

vars == <<argKey, envKey, file, pc, apiKey, inputRead, df, idx, requests, replies,
          results, resFrame, out, written, stdout, stderr, exitCode,
          normRaw, normTitle, normDesc, normDone>>

batchVars == <<argKey, envKey, file, pc, apiKey, inputRead, df, idx, requests, replies,
               results, resFrame, out, written, stdout, stderr, exitCode>>
normVars == <<normRaw, normTitle, normDesc, normDone>>

(* ---------------------------- inputs ----------------------------------- *)

Nil == "<none>"
ArgKeys == {Nil, "", "sk-1"}
EnvKeys == {Nil, "", "sk-2"}

\* the header always has the two required columns; the others vary
Headers ==
    { <<"RawTitle", "RawDescription">>,
      <<"RawTitle", "RawDescription", "Price">>,
      <<"RawTitle", "RawDescription", "clean_title">>,
      <<"RawTitle", "RawDescription", "title", "html_description", "seo_description">> }

RowR1 == [title |-> StrCell(<<" ", "4", "k", " ", " ", "t", "V", " ">>),
          desc  |-> StrCell(<<"a", " ", "\n", "b", " ">>),
          extra |-> StrCell(<<"9">>)]
RowR2 == [title |-> NaN,
          desc  |-> StrCell(<<"c">>),
          extra |-> StrCell(<<"8">>)]
RowChoices == {RowR1, RowR2}

MkRow(h, tmpl) ==
    [c \in Range(h) |->
        IF c = "RawTitle" THEN tmpl.title
        ELSE IF c = "RawDescription" THEN tmpl.desc
        ELSE tmpl.extra]

Tables ==
    { [header |-> h, rows |-> [r \in 1..n |-> MkRow(h, q[r])]] :
        h \in Headers, n \in 0..MaxRows, q \in [1..MaxRows -> RowChoices] }

NoTable == [header |-> <<>>, rows |-> <<>>]

SeqsUpTo(A, n) == UNION {[1..k -> A] : k \in 0..n}

\* lowercase, uppercase, digit, punctuation, two whitespace characters
Alphabet == {"a", "B", "4", ".", " ", "\n"}

ExampleRawTitle ==
    <<" ", " ", "w", "i", "r", "e", "l", "e", "s", "s", " ", " ", " ",
      "m", "o", "u", "s", "e", " ", " ">>
ExampleRawDesc ==
    <<"G", "r", "e", "a", "t", " ", " ", " ", "f", "o", "r", " ", " ", " ",
      "t", "r", "a", "v", "e", "l", ".", "\n", "\n",
      "C", "o", "m", "p", "a", "c", "t", ".">>

RawCells ==
    {StrCell(s) : s \in SeqsUpTo(Alphabet, MaxLen)}
    \cup {StrCell(ExampleRawTitle), StrCell(ExampleRawDesc), NaN}

(* ---------------------------- the script ------------------------------ *)

BatchInit ==
    /\ pc = "start"
    /\ apiKey = Nil
    /\ inputRead = FALSE
    /\ df = NoTable
    /\ idx = 0
    /\ requests = <<>>
    /\ replies = <<>>
    /\ results = <<>>
    /\ resFrame = NoFrame
    /\ out = NoTable
    /\ written = FALSE
    /\ stdout = ""
    /\ stderr = ""
    /\ exitCode = -1

NormIdle ==
    /\ normRaw = NaN
    /\ normTitle = <<>>
    /\ normDesc = <<>>
    /\ normDone = {}

Init ==
    /\ argKey \in ArgKeys
    /\ envKey \in EnvKeys
    /\ file \in Tables
    /\ BatchInit
    /\ NormIdle

\* argparse: --api-key, defaulting to the environment variable
ParsedKey(arg, env) == IF arg # Nil THEN arg ELSE env

\* a test that lets the empty string through
IsNoneOnly(k) == k = Nil

\* Python's "not args.api_key"
Falsy(k) == k = Nil \/ k = ""

\* the __main__ block: parse the arguments, exit without a key, else enter
\* main, which first sets openai.api_key
ParseArgs ==
    /\ pc = "start"
    /\ IF Falsy(ParsedKey(argKey, envKey))
       THEN /\ pc' = "exit"
            /\ stderr' = "OpenAI API key required via --api-key or OPENAI_API_KEY env var"
            /\ exitCode' = 1
            /\ apiKey' = apiKey
       ELSE /\ pc' = "read"
            /\ apiKey' = ParsedKey(argKey, envKey)
            /\ UNCHANGED <<stderr, exitCode>>
    /\ UNCHANGED <<argKey, envKey, file, inputRead, df, idx, requests, replies,
                   results, resFrame, out, written, stdout>>
    /\ UNCHANGED normVars

\* df = pd.read_csv(input_csv)
ReadCsv ==
    /\ pc = "read"
    /\ df' = file
    /\ inputRead' = TRUE
    /\ pc' = "clean"
    /\ UNCHANGED <<argKey, envKey, file, apiKey, idx, requests, replies, results,
                   resFrame, out, written, stdout, stderr, exitCode>>
    /\ UNCHANGED normVars

\* the two cleaning assignments
CleanColumns ==
    /\ pc = "clean"
    /\ df' = Clean(df)
    /\ idx' = 1
    /\ pc' = "apply"
    /\ UNCHANGED <<argKey, envKey, file, apiKey, inputRead, requests, replies, results,
                   resFrame, out, written, stdout, stderr, exitCode>>
    /\ UNCHANGED normVars

\* df.apply on a frame with no rows: the function is never called
ApplyEmpty ==
    /\ pc = "apply"
    /\ Len(df.rows) = 0
    /\ resFrame' = Expand(results, df)
    /\ pc' = "assign"
    /\ UNCHANGED <<argKey, envKey, file, apiKey, inputRead, df, idx, requests, replies,
                   results, out, written, stdout, stderr, exitCode>>
    /\ UNCHANGED normVars

\* generate_listing, up to the blocking call for row idx
CallApi ==
    /\ pc = "apply"
    /\ idx <= Len(df.rows)
    /\ requests' = Append(requests,
                          [row |-> idx,
                           prompt |-> build_prompt(df.rows[idx]["clean_title"].v,
                                                   df.rows[idx]["clean_desc"].v)])
    /\ pc' = "await"
    /\ UNCHANGED <<argKey, envKey, file, apiKey, inputRead, df, idx, replies, results,
                   resFrame, out, written, stdout, stderr, exitCode>>
    /\ UNCHANGED normVars

\* a generate_listing that calls again after a failure
RetryFailed(i, res) == IF "error" \in res.keys THEN i ELSE i + 1

\* df.apply moves to the next row once the function has returned
NextIndex(i, res) == i + 1

\* the call returns or raises; generate_listing returns its dict
Reply(o) ==
    /\ pc = "await"
    /\ replies' = Append(replies, o)
    /\ results' = Append(results, generate_listing(df.rows[idx], o))
    /\ idx' = NextIndex(idx, generate_listing(df.rows[idx], o))
    /\ pc' = IF idx' > Len(df.rows) THEN "wrap" ELSE "apply"
    /\ UNCHANGED <<argKey, envKey, file, apiKey, inputRead, df, requests,
                   resFrame, out, written, stdout, stderr, exitCode>>
    /\ UNCHANGED normVars

\* df.apply builds its result from the per-row results
WrapResults ==
    /\ pc = "wrap"
    /\ IF Expand(results, df).ok
       THEN /\ resFrame' = Expand(results, df)
            /\ pc' = "assign"
            /\ UNCHANGED <<stderr, exitCode>>
       ELSE /\ pc' = "crashed"
            /\ stderr' = Expand(results, df).exc
            /\ exitCode' = 1
            /\ UNCHANGED resFrame
    /\ UNCHANGED <<argKey, envKey, file, apiKey, inputRead, df, idx, requests, replies,
                   results, out, written, stdout>>
    /\ UNCHANGED normVars

\* the three result columns are copied into df
AssignResults ==
    /\ pc = "assign"
    /\ IF AssignColumns(df, resFrame).ok
       THEN /\ df' = AssignColumns(df, resFrame).df
            /\ pc' = "write"
            /\ UNCHANGED <<stderr, exitCode>>
       ELSE /\ pc' = "crashed"
            /\ stderr' = AssignColumns(df, resFrame).exc
            /\ exitCode' = 1
            /\ UNCHANGED df
    /\ UNCHANGED <<argKey, envKey, file, apiKey, inputRead, idx, requests, replies,
                   results, resFrame, out, written, stdout>>
    /\ UNCHANGED normVars

\* df.to_csv(output_csv, index=False)
ToCsv ==
    /\ pc = "write"
    /\ out' = df
    /\ written' = TRUE
    /\ pc' = "print"
    /\ UNCHANGED <<argKey, envKey, file, apiKey, inputRead, df, idx, requests, replies,
                   results, resFrame, stdout, stderr, exitCode>>
    /\ UNCHANGED normVars

\* print(f"Saved formatted deals to {output_csv}"), and the script ends
PrintSaved ==
    /\ pc = "print"
    /\ stdout' = "Saved formatted deals to output.csv"
    /\ exitCode' = 0
    /\ pc' = "done"
    /\ UNCHANGED <<argKey, envKey, file, apiKey, inputRead, df, idx, requests, replies,
                   results, resFrame, out, written, stderr>>
    /\ UNCHANGED normVars

Next ==
    \/ ParseArgs
    \/ ReadCsv
    \/ CleanColumns
    \/ ApplyEmpty
    \/ CallApi
    \/ \E o \in Outcomes : Reply(o)
    \/ WrapResults
    \/ AssignResults
    \/ ToCsv
    \/ PrintSaved

Spec == Init /\ [][Next]_vars

(* ---------------------------- the normalizer alone -------------------- *)

BatchOff ==
    /\ argKey = Nil
    /\ envKey = Nil
    /\ file = NoTable
    /\ BatchInit
    /\ pc = "start"

NormInit ==
    /\ normRaw \in RawCells
    /\ normTitle = <<>>
    /\ normDesc = <<>>
    /\ normDone = {}
    /\ BatchOff

NormalizeTitle ==
    /\ "title" \notin normDone
    /\ normTitle' = CleanTitle(normRaw)
    /\ normDone' = normDone \cup {"title"}
    /\ UNCHANGED <<normRaw, normDesc>>
    /\ UNCHANGED batchVars

NormalizeDesc ==
    /\ "desc" \notin normDone
    /\ normDesc' = CleanDesc(normRaw)
    /\ normDone' = normDone \cup {"desc"}
    /\ UNCHANGED <<normRaw, normTitle>>
    /\ UNCHANGED batchVars

NormNext == NormalizeTitle \/ NormalizeDesc

SpecNorm == NormInit /\ [][NormNext]_vars

(* ---------------------------- a whole run of main ---------------------- *)

\* main as a function of the input table and of what the service does for
\* each row: whether it reaches to_csv, and the table it writes
Batch(tbl, outs) ==
    LET d == Clean(tbl)
        res == [r \in 1..Len(d.rows) |-> generate_listing(d.rows[r], outs[r])]
        fr == Expand(res, d)
    IN IF ~fr.ok THEN [ok |-> FALSE, out |-> NoTable]
       ELSE IF ~AssignColumns(d, fr).ok THEN [ok |-> FALSE, out |-> NoTable]
       ELSE [ok |-> TRUE, out |-> AssignColumns(d, fr).df]

(* ---------------------------- properties ------------------------------ *)

RowCleanTitle(r) == CleanTitle(file.rows[r]["RawTitle"])
RowCleanDesc(r) == CleanDesc(file.rows[r]["RawDescription"])

\* main has ended, one way or the other
MainEnded == pc \in {"done", "crashed"}

\* df.apply has returned or raised
PastApply == pc \in {"wrap", "assign", "write", "print", "done", "crashed"}

IsFallbackResult(r) ==
    /\ results[r].t = "dict"
    /\ results[r].keys = DictKeys
    /\ results[r].val["title"] = RowCleanTitle(r)
    /\ results[r].val["html_description"] = RowCleanDesc(r)
    /\ results[r].val["seo_description"] = <<>>
    /\ results[r].val["error"] # <<>>

IsFallbackRow(r) ==
    /\ out.rows[r]["Formatted Title"] = StrCell(RowCleanTitle(r))
    /\ out.rows[r]["HTML Description"] = StrCell(RowCleanDesc(r))
    /\ out.rows[r]["SEO Description"] = StrCell(<<>>)

IncompleteReply(o) ==
    \/ o.kind = "object" /\ o.keys # ReqKeys
    \/ o.kind \in {"array", "number"}

\* C2: when the reply for a row is JSON that lacks one of the three keys, or
\* is no JSON object, the row gets the fallback result with error set, and
\* the run is not aborted: it writes the output.
C2_FallbackOnIncompleteReply ==
    /\ \A r \in 1..Len(results) : IncompleteReply(replies[r]) => IsFallbackResult(r)
    /\ (\E r \in 1..Len(replies) : IncompleteReply(replies[r])) => pc # "crashed"
    /\ written =>
          \A r \in 1..Len(out.rows) : IncompleteReply(replies[r]) => IsFallbackRow(r)

\* C3: when the reply for a row is a JSON object with all three keys,
\* generate_listing returns exactly that object (no error key), and in the
\* table written the row's three new columns hold its three values,
\* whatever the replies for the other rows were.
C3_ReplyVerbatim ==
    /\ \A r \in 1..Len(results) :
          (replies[r].kind = "object" /\ replies[r].keys = ReqKeys) =>
             /\ results[r].t = "dict"
             /\ results[r].keys = ReqKeys
             /\ \A k \in ReqKeys : results[r].val[k] = ReplyField(replies[r].tag, k)
    /\ written =>
          \A r \in 1..Len(out.rows) :
             (replies[r].kind = "object" /\ replies[r].keys = ReqKeys) =>
                /\ out.rows[r]["Formatted Title"]
                      = StrCell(ReplyField(replies[r].tag, "title"))
                /\ out.rows[r]["HTML Description"]
                      = StrCell(ReplyField(replies[r].tag, "html_description"))
                /\ out.rows[r]["SEO Description"]
                      = StrCell(ReplyField(replies[r].tag, "seo_description"))

C3_Witness ==
    /\ pc = "done"
    /\ Len(out.rows) = 2
    /\ replies[1].kind = "raise"
    /\ replies[2] = Object(ReqKeys, "B")
    /\ out.rows[2]["Formatted Title"] = StrCell(<<"T", "B">>)

\* C4: the table written has one row per input row, in the input's order:
\* row r of the output is row r of the input, whatever the outcomes were.
C4_RowsPreserved ==
    written =>
       /\ Len(out.rows) = Len(file.rows)
       /\ \A r \in 1..Len(out.rows) :
             /\ out.rows[r]["RawTitle"] = file.rows[r]["RawTitle"]
             /\ out.rows[r]["RawDescription"] = file.rows[r]["RawDescription"]

C4_Witness ==
    /\ pc = "done"
    /\ Len(out.rows) = 2
    /\ file.rows[1]["RawTitle"] # file.rows[2]["RawTitle"]
    /\ replies[1].kind = "garbage"
    /\ replies[2] = Object(ReqKeys \ {"seo_description"}, "C")

NewColumns == <<"Formatted Title", "HTML Description", "SEO Description">>

\* C5: two runs over the same table that differ only in the outcome for row
\* j both complete and write their output, and agree on the three new
\* columns of every other row.
C5_RowIndependence ==
    (MainEnded /\ Len(file.rows) > 0) =>
       \A j \in 1..Len(file.rows) : \A o \in Outcomes :
          LET other == Batch(file, [replies EXCEPT ![j] = o])
          IN /\ pc = "done"
             /\ other.ok
             /\ \A r \in 1..Len(file.rows) : \A c \in Range(NewColumns) :
                   r # j => out.rows[r][c] = other.out.rows[r][c]

\* C6: for a table with no data rows the run completes without error, makes
\* no request, and writes a table with the header and no rows.
C6_EmptyTable ==
    (MainEnded /\ Len(file.rows) = 0) =>
       /\ pc = "done"
       /\ requests = <<>>
       /\ written
       /\ out.rows = <<>>
       /\ Range(file.header) \subseteq Range(out.header)

\* no credential: no argument and no variable, or an empty value
NoCredential ==
    \/ argKey = ""
    \/ argKey = Nil /\ envKey \in {Nil, ""}

\* C7: without a credential the script never enters main: it reads no
\* input, makes no request, writes no output, and exits with a non-zero
\* status and a message.
C7_NoCredentialExits ==
    NoCredential =>
       /\ pc \in {"start", "exit"}
       /\ ~inputRead
       /\ requests = <<>>
       /\ ~written
       /\ stdout = ""
       /\ pc = "exit" => (exitCode > 0 /\ stderr # "")

C7_Witness ==
    /\ pc = "exit"
    /\ argKey = ""
    /\ envKey = "sk-2"
    /\ Len(file.rows) > 0

AddedColumns == <<"clean_title", "clean_desc">> \o NewColumns

C9_OneRequestPerRow ==
    /\ \A k \in 1..Len(requests) :
          /\ requests[k].row = k
          /\ requests[k].prompt = build_prompt(RowCleanTitle(k), RowCleanDesc(k))
    /\ Len(replies) = Len(results)
    /\ Len(requests) = Len(results) + (IF pc = "await" THEN 1 ELSE 0)
    /\ (PastApply => Len(requests) = Len(file.rows))
    /\ (pc \in {"start", "exit", "read", "clean"} => requests = <<>>)

C9_Witness ==
    /\ pc = "done"
    /\ Len(requests) = 2
    /\ replies[1].kind = "raise"
    /\ replies[2].kind = "garbage"

(* the normalizer's properties *)

NoEdgeSpace(s) == s = <<>> \/ (~IsSpace(s[1]) /\ ~IsSpace(s[Len(s)]))
NoSpaceRun(s) == \A i \in 1..(Len(s) - 1) : ~(IsSpace(s[i]) /\ IsSpace(s[i+1]))
\* a word starts where a non-whitespace character follows whitespace or
\* nothing
WordStart(s, i) == ~IsSpace(s[i]) /\ (i = 1 \/ IsSpace(s[i-1]))

WirelessMouse1 ==
    <<"W", "i", "r", "e", "l", "e", "s", "s", " ", "M", "o", "u", "s", "e">>
WirelessMouse3 ==
    <<"W", "i", "r", "e", "l", "e", "s", "s", " ", " ", " ", "M", "o", "u", "s", "e">>
GreatForTravel ==
    <<"G", "r", "e", "a", "t", " ", "f", "o", "r", " ",
      "t", "r", "a", "v", "e", "l", ".", " ",
      "C", "o", "m", "p", "a", "c", "t", ".">>

DescClean ==
    "desc" \in normDone =>
       /\ NoEdgeSpace(normDesc)
       /\ NoSpaceRun(normDesc)
       /\ (normRaw = StrCell(ExampleRawDesc) => normDesc = GreatForTravel)

\* C10 as claimed: cleanTitle has no whitespace at either end and every
\* word of it begins with an uppercase letter; cleanDescription has no
\* whitespace at either end and no two whitespace characters in a row;
\* "  wireless   mouse  " gives "Wireless Mouse", and the example
\* description gives "Great for travel. Compact.".
C10_EveryWordUpper ==
    /\ "title" \in normDone =>
          /\ NoEdgeSpace(normTitle)
          /\ \A i \in 1..Len(normTitle) :
                WordStart(normTitle, i) => IsUpper(normTitle[i])
          /\ (normRaw = StrCell(ExampleRawTitle) => normTitle = WirelessMouse1)
    /\ DescClean

\* C10, amended: as claimed, except that a word beginning with a letter
\* begins with an uppercase one (a word may begin with a digit or a
\* punctuation mark), and that whitespace inside the title is kept, so
\* "  wireless   mouse  " gives "Wireless   Mouse".
C10_LetterWordsUpper ==
    /\ "title" \in normDone =>
          /\ NoEdgeSpace(normTitle)
          /\ \A i \in 1..Len(normTitle) :
                (WordStart(normTitle, i) /\ IsCased(normTitle[i])) => IsUpper(normTitle[i])
          /\ (normRaw = StrCell(ExampleRawTitle) => normTitle = WirelessMouse3)
    /\ DescClean

C10_Witness ==
    /\ normDone = {"title", "desc"}
    /\ normRaw = StrCell(<<" ", "a", "\n", "B">>)
    /\ normTitle = <<"A", "\n", "B">>
    /\ normDesc = <<"a", " ", "B">>

====
